---- MODULE Spec2Model ----
(***************************************************************************)
(* Message-lifecycle and feedback-correlation pipeline of the summarizer   *)
(* bot (src/main.py, src/summarizer.py).                                   *)
(*                                                                         *)
(* The handlers are asyncio coroutines.  A handler runs without            *)
(* interruption between two awaits; at an await (channel-service call,     *)
(* generation call) it is suspended and other handlers may run.  Each      *)
(* action below is one such uninterrupted stretch of one handler: it       *)
(* starts when the awaited call returns and runs to the next await or to   *)
(* the handler's end.  A suspended handler is an element of the bag        *)
(* `tasks`, with its position `pc` and its local variables.                *)
(* A retry or rating handler suspended at its first await has changed     *)
(* nothing yet: it also stands for a button press that waits to be         *)
(* dispatched while another handler runs.                                  *)
(***************************************************************************)
EXTENDS Naturals, Sequences, FiniteSets, Bags, TLC

\* ------------------------------------------------------------------ bounds
MaxMsgs == 1         \* message ids of the destination channel (Spec, NoteSpec)
WideMsgs == 2        \* message ids of the destination channel (WideSpec)
MaxTraces == 2       \* trace ids the telemetry client hands out
MaxTasks == 2        \* handlers suspended at the same time
MaxScores == 2       \* score calls the telemetry service records

NoMsg == 0
NoTrace == 0
NoUrl == <<>>

\* ------------------------------------------------------------------ state
VARIABLES
    langfuse_client,   \* TRUE iff a telemetry client is configured (main.py:47-56)
    url_store,         \* _url_store: message_id -> url (NoUrl: no entry)
    trace_store,       \* _trace_store: message_id -> trace_id (NoTrace: no entry)
    pending_note,      \* _pending_note: user_id -> message_id (NoMsg: no entry)
    msgs,              \* destination channel: what each message displays
    tasks,             \* bag of suspended handlers
    next_trace,        \* the number of the next trace id summarize returns
    trace_log,         \* observation: every trace_id ever stored for a message
    scores,            \* telemetry service: bag of the create_score calls received
    ev                 \* the last step: what it was and what it showed the user

vars == <<langfuse_client, url_store, trace_store, pending_note, msgs, tasks,
          next_trace, trace_log, scores, ev>>

\* The message ids the channel service can hand out and the users there are:
\* the initial state fixes both.
MsgIds == DOMAIN msgs
Users == DOMAIN pending_note

\* ------------------------------------------------------------- link extractor
\* A text is a sequence of tokens: a scheme ("http://", "https://"), a
\* whitespace character (" ") or another non-whitespace character.
IsScheme(c) == c \in {"http://", "https://"}
IsSpace(c) == c = " "

\* re.search(r'(https?://\S+)') matches at i: scheme, then at least one \S.
MatchAt(text, i) == IsScheme(text[i]) /\ i < Len(text) /\ ~IsSpace(text[i + 1])

\* \S+ is greedy: the match extends to the next whitespace or the end.
RECURSIVE MatchEnd(_, _)
MatchEnd(text, j) ==
    IF j < Len(text) /\ ~IsSpace(text[j + 1]) THEN MatchEnd(text, j + 1) ELSE j

\* A variant of extract_url that returns the last match.
extract_last_url(text) ==
    LET starts == {i \in 1..Len(text) : MatchAt(text, i)}
    IN  IF starts = {} THEN NoUrl
        ELSE LET i == CHOOSE k \in starts : \A l \in starts : k >= l
             IN  SubSeq(text, i, MatchEnd(text, i + 1))

\* main.py:72-76: the first match of the pattern, None (NoUrl) without one.
extract_url(text) ==
    LET starts == {i \in 1..Len(text) : MatchAt(text, i)}
    IN  IF starts = {} THEN NoUrl
        ELSE LET i == CHOOSE k \in starts : \A l \in starts : k <= l
             IN  SubSeq(text, i, MatchEnd(text, i + 1))

UrlA == <<"http://", "a">>
UrlB == <<"https://", "b">>
\* Channel posts the model delivers: two with a link, one without, one empty.
PostTexts == {UrlA, <<"x", " ">> \o UrlB \o <<" ", "y">>, <<"x", " ", "y">>, <<>>}
Chats == {"CHANNEL_A", "other"}

\* Every text of at most ShortLen tokens, and every text of at most MaxLen
\* tokens with one scheme only.
ShortLen == 3
MaxLen == 5
Tokens == {"http://", "https://", " ", "a"}
AllTexts ==
    UNION {[1..n -> Tokens] : n \in 0..ShortLen}
    \cup UNION {[1..n -> Tokens \ {"https://"}] : n \in 0..MaxLen}

\* ------------------------------------------------------------------ keyboards
\* main.py:100-114.  Buttons(kb): the callback_data of the buttons of kb.
NoKeyboard == "none"
_retry_keyboard == "retry"
_feedback_keyboard == "feedback"
_rated_keyboard(was_positive) == IF was_positive THEN "rated up" ELSE "rated down"

Buttons(kb) ==
    CASE kb = "retry" -> {"retry"}
      [] kb = "feedback" -> {"fb:up", "fb:down"}
      [] kb \in {"rated up", "rated down"} -> {"fb:noop", "fb:note"}
      [] OTHER -> {}

\* ------------------------------------------------------------------ messages
\* body: "absent" (id not yet used), "summarizing", "retrying", "success",
\* "scraping_failed", "summarization_failed", "unexpected_error".
\* url: the link the body shows; detail: the error text of a failure body;
\* warn: the "tracing unavailable" footer; kb: the inline keyboard.
\* Observation only: posted, the link of the placeholder first posted under
\* this id, and trace, the trace_id summarize returned to the run that wrote
\* the body now displayed.
Absent ==
    [body |-> "absent", url |-> NoUrl, detail |-> "", warn |-> FALSE,
     kb |-> NoKeyboard, posted |-> NoUrl, trace |-> NoTrace]

Placeholders == {"summarizing", "retrying"}
FailureBodies == {"scraping_failed", "summarization_failed", "unexpected_error"}
FinalBodies == FailureBodies \cup {"success"}

Posted == {m \in MsgIds : msgs[m].body # "absent"}

\* ------------------------------------------------------------------ last step
\* op: the handler step; m, u: the message and the user it concerns; url: the
\* link handed to the extractor; body, kb: the body and keyboard written;
\* notice, reply: what the presser or sender is shown; fin: how the handler
\* ended in this step ("": it did not); writes: final bodies its run wrote.
\* h: the handler of a pipeline step; trace: the trace_id its run got from
\* summarize; old: the trace ids stored for m before the run stored its own;
\* score: the score forwarded; shown: see NoTask.
\* res, telemetry, summary, error: the outcome of the generation call, of the
\* telemetry calls of summarize ("absent": no client), and what summarize
\* returned.
\* text, found: the text handed to extract_url and what it returned; scraped:
\* whether scrape_content returned text ("text") or None ("none"); slot: the
\* pending note slot of u before the step.
\* post: the channel post a process_message step received: its sender
\* (NoSender: an unsigned post), its chat and its text or caption.
NoScore == [trace |-> NoTrace, name |-> "", value |-> ""]
NoSender == "none"
NoPost == [sender |-> "", chat |-> "", text |-> <<>>]
NoRes == [kind |-> "", text |-> "", code |-> 0, words |-> {}]
NoArgs == [prefix |-> "", int |-> FALSE, n |-> NoMsg]
NoEv ==
    [op |-> "init", h |-> "", m |-> NoMsg, u |-> "", url |-> NoUrl, body |-> "",
     kb |-> NoKeyboard, notice |-> "", reply |-> "", fin |-> "", writes |-> 0,
     trace |-> NoTrace, old |-> {}, score |-> NoScore, shown |-> NoTrace,
     res |-> NoRes, telemetry |-> "", summary |-> "", error |-> "",
     text |-> <<>>, found |-> NoUrl, scraped |-> "", slot |-> NoMsg,
     post |-> NoPost, args |-> NoArgs]

\* ------------------------------------------------------------------ tasks
\* h: the handler; pc: the await it is suspended at; the rest are its locals.
\* Observation: shown, the trace of the body displayed when the rating button
\* was pressed; writes, the final bodies the run has written; old, the trace
\* ids stored for m before the run stored its own.
NoTask ==
    [h |-> "", pc |-> "", m |-> NoMsg, url |-> NoUrl, trace |-> NoTrace,
     gen |-> FALSE, body |-> "", detail |-> "", warn |-> FALSE,
     kb |-> NoKeyboard, up |-> FALSE, shown |-> NoTrace, writes |-> 0,
     old |-> {}]

Suspend(t) == tasks (+) SetToBag({t})
Resume(t) == tasks (-) SetToBag({t})
Continue(t, n) == (tasks (-) SetToBag({t})) (+) SetToBag({n})
Waiting(pc) == {t \in BagToSet(tasks) : t.pc = pc}
Room == BagCardinality(tasks) < MaxTasks

\* main.py:47-66: the state after start-up, for n message ids and a set of
\* users.
InitWith(n, users) ==
    /\ langfuse_client \in BOOLEAN
    /\ url_store = [m \in 1..n |-> NoUrl]
    /\ trace_store = [m \in 1..n |-> NoTrace]
    /\ pending_note = [u \in users |-> NoMsg]
    /\ msgs = [m \in 1..n |-> Absent]
    /\ tasks = EmptyBag
    /\ next_trace = 1
    /\ trace_log = [m \in 1..n |-> {}]
    /\ scores = EmptyBag
    /\ ev = NoEv

\* ------------------------------------------------------------------ stores
\* _url_store.get(message_id), _trace_store.get(message_id): None for a
\* message id without an entry.
\* Variants of the look-ups, which the properties must tell from them: the
\* URL of the latest post; the URL the message displays; the trace of the
\* body the message displays.
UrlOfLatestPost(message_id) ==
    IF Posted # {} THEN url_store[Cardinality(Posted)] ELSE NoUrl
UrlDisplayed(message_id) ==
    IF message_id \in DOMAIN msgs THEN msgs[message_id].posted ELSE NoUrl
TraceDisplayed(message_id) ==
    IF message_id \in DOMAIN msgs THEN msgs[message_id].trace ELSE NoTrace

UrlFor(message_id) ==
    IF message_id \in DOMAIN url_store THEN url_store[message_id] ELSE NoUrl
TraceFor(message_id) ==
    IF message_id \in DOMAIN trace_store THEN trace_store[message_id] ELSE NoTrace

\* ------------------------------------------------------------------ summarizer
\* What `await client.aio.models.generate_content` produces: a response whose
\* text is a summary or is empty/None, or an exception.  `words` are the
\* keywords the lower-cased str(e) contains.
GenResults ==
    { [kind |-> "text", text |-> "S", code |-> 0, words |-> {}],
      [kind |-> "text", text |-> "", code |-> 0, words |-> {}],
      [kind |-> "ServerError", text |-> "", code |-> 503, words |-> {}] }

\* The exceptions the generation call raises: server and client errors with
\* and without the codes and keywords _format_error looks for, their common
\* base class, and an exception of another kind.
GenFailures ==
    { [kind |-> "ServerError", text |-> "", code |-> 503, words |-> {}],
      [kind |-> "ServerError", text |-> "", code |-> 500, words |-> {}],
      [kind |-> "ServerError", text |-> "", code |-> 500, words |-> {"overloaded"}],
      [kind |-> "ClientError", text |-> "", code |-> 429, words |-> {}],
      [kind |-> "ClientError", text |-> "", code |-> 400, words |-> {}],
      [kind |-> "ClientError", text |-> "", code |-> 400, words |-> {"quota"}],
      [kind |-> "ClientError", text |-> "", code |-> 400, words |-> {"rate"}],
      [kind |-> "ClientError", text |-> "", code |-> 400, words |-> {"overloaded"}],
      [kind |-> "APIError", text |-> "", code |-> 429, words |-> {"rate"}],
      [kind |-> "Exception", text |-> "", code |-> 0, words |-> {}],
      [kind |-> "Exception", text |-> "", code |-> 0, words |-> {"overloaded"}] }

\* A variant of _format_error that looks at the code only.
FormatByCode(e) ==
    IF e.kind = "ServerError"
    THEN IF e.code = 503 THEN "model overloaded" ELSE "server error"
    ELSE IF e.kind = "ClientError"
    THEN IF e.code = 429 THEN "rate limited" ELSE "client error"
    ELSE "gemini error"

\* summarizer.py:10-19
_format_error(e) ==
    IF e.kind = "ServerError"
    THEN IF e.code = 503 \/ "overloaded" \in e.words
         THEN "model overloaded" ELSE "server error"
    ELSE IF e.kind = "ClientError"
    THEN IF e.code = 429 \/ "quota" \in e.words \/ "rate" \in e.words
         THEN "rate limited" ELSE "client error"
    ELSE "gemini error"

\* Trace ids are opaque tokens, a new one from each create_trace_id call.
\* The model numbers them 1, 2, ... in the order in which summarize returns
\* them to _process_url; until then a run holds TRUE for "a trace id".

\* A variant of SummarizeSetup without the test of the client.
SetupWithoutClient(tel_ok) == tel_ok

\* summarizer.py:37-54: the tracing set-up before the generation call.
\* tel_ok: create_trace_id and start_generation both succeed.  The result
\* tells whether trace_id and generation are set (they are set together).
SummarizeSetup(tel_ok) == langfuse_client /\ tel_ok

\* A variant of SummarizeReturn in which a failure to end the generation
\* record turns the summary into an error.
SummarizeAbortsOnTelemetry(t, res, end_ok) ==
    IF res.kind = "text" /\ ~(t.gen /\ ~end_ok)
    THEN [summary |-> res.text, error |-> "",
          trace_id |-> IF t.gen THEN next_trace ELSE NoTrace]
    ELSE IF res.kind \in {"ServerError", "ClientError"}
    THEN [summary |-> "", error |-> _format_error(res), trace_id |-> NoTrace]
    ELSE [summary |-> "", error |-> "unexpected error", trace_id |-> NoTrace]

\* summarizer.py:56-87: from the return of the generation call to the return
\* of summarize.  end_ok: generation.update/end succeed.  "" stands for None.
SummarizeReturn(t, res, end_ok) ==
    IF res.kind = "text"
    THEN [summary |-> res.text, error |-> "",
          trace_id |-> IF t.gen /\ end_ok THEN next_trace ELSE NoTrace]
    ELSE IF res.kind \in {"ServerError", "ClientError"}
    THEN [summary |-> "", error |-> _format_error(res), trace_id |-> NoTrace]
    ELSE [summary |-> "", error |-> "unexpected error", trace_id |-> NoTrace]

\* ------------------------------------------------------------------ pipeline
\* A variant of ProcessUrlStart that returns after a scraping failure
\* without editing the message.
ReturnWithoutEdit(h, m, url, scraped, tel_ok) ==
    IF ~scraped
    THEN [NoTask EXCEPT !.h = h, !.pc = "returned", !.m = m, !.url = url]
    ELSE [NoTask EXCEPT !.h = h, !.pc = "generate", !.m = m, !.url = url,
                        !.gen = SummarizeSetup(tel_ok)]

\* A variant of ProcessUrlStart that calls the summarizer whatever the
\* extractor returned.
SummarizeUnscraped(h, m, url, scraped, tel_ok) ==
    [NoTask EXCEPT !.h = h, !.pc = "generate", !.m = m, !.url = url,
                   !.gen = SummarizeSetup(tel_ok)]

\* main.py:116-130: _process_url from its start to its first await.
\* scraped: scrape_content(url) returned text.
ProcessUrlStart(h, m, url, scraped, tel_ok) ==
    IF ~scraped
    THEN [NoTask EXCEPT !.h = h, !.pc = "edit", !.m = m, !.url = url,
                        !.body = "scraping_failed", !.detail = "no content",
                        !.kb = _retry_keyboard]
    ELSE [NoTask EXCEPT !.h = h, !.pc = "generate", !.m = m, !.url = url,
                        !.gen = SummarizeSetup(tel_ok)]

\* summarize returns at most MaxTraces trace ids.
TraceBound(r) == r.trace_id # NoTrace => next_trace <= MaxTraces

NextTrace(r) == IF r.trace_id # NoTrace THEN next_trace + 1 ELSE next_trace

\* A variant of StoreTrace without the test of trace_id.
StoreUntested(m, trace_id) == [trace_store EXCEPT ![m] = next_trace]

\* main.py:133-134
StoreTrace(m, trace_id) ==
    IF trace_id # NoTrace THEN [trace_store EXCEPT ![m] = trace_id] ELSE trace_store

\* A variant of FeedbackMarkup that attaches the rating control to every
\* summary.
RatingAlways(trace_id) == _feedback_keyboard

\* A variant of FeedbackMarkup that attaches the Retry control.
RetryMarkup(trace_id) == _retry_keyboard

\* main.py:141
FeedbackMarkup(trace_id) ==
    IF trace_id # NoTrace THEN _feedback_keyboard ELSE NoKeyboard

\* main.py:131-148: _process_url from the return of summarize to the edit it
\* awaits (the store of the trace_id is StoreTrace).
RenderResult(t, r) ==
    IF r.summary # ""
    THEN [t EXCEPT !.pc = "edit", !.body = "success", !.detail = r.summary,
                   !.trace = r.trace_id, !.gen = FALSE, !.old = trace_log[t.m],
                   !.warn = (langfuse_client /\ r.trace_id = NoTrace),
                   !.kb = FeedbackMarkup(r.trace_id)]
    ELSE [t EXCEPT !.pc = "edit", !.body = "summarization_failed",
                   !.detail = IF r.error = "" THEN "None" ELSE r.error,
                   !.trace = NoTrace, !.gen = FALSE, !.kb = _retry_keyboard]

\* bot.edit_message_text(message_id, text, reply_markup) applied to a message.
Edited(old, t) ==
    [body |-> t.body, url |-> t.url, detail |-> t.detail, warn |-> t.warn,
     kb |-> t.kb, posted |-> old.posted, trace |-> t.trace]

\* A variant of ExceptClause that renders the error without the Retry control.
ExceptWithoutRetry(t) ==
    [t EXCEPT !.pc = "edit_error", !.body = "unexpected_error",
              !.detail = "edit rejected", !.warn = FALSE, !.trace = NoTrace,
              !.old = {}, !.kb = NoKeyboard]

\* main.py:206-212, 231-237: the handler's except clause, up to its await.
ExceptClause(t) ==
    [t EXCEPT !.pc = "edit_error", !.body = "unexpected_error",
              !.detail = "edit rejected", !.warn = FALSE, !.trace = NoTrace,
              !.old = {}, !.kb = _retry_keyboard]

PipelineEv(op, t) ==
    [NoEv EXCEPT !.op = op, !.h = t.h, !.m = t.m, !.url = t.url, !.trace = t.trace,
                 !.old = t.old]

\* A variant of RecordUrl that records the URL under every message id.
RecordForAll(m, url) == [k \in DOMAIN url_store |-> url]

\* A variant of RecordUrl that records nothing.
RecordNothing(m, url) == url_store

\* main.py:202
RecordUrl(m, url) == [url_store EXCEPT ![m] = url]

\* main.py:22: the identity AUTHORIZED_USER_ID names ("": none is
\* configured), and the senders a post may carry.
AUTHORIZED_USER_ID == "u1"
Senders == {NoSender, "u1", "u2"}

\* A variant of Unauthorized that lets every sender pass.
EveryoneAuthorized(sender) == FALSE

\* main.py:154-160: an authorized identity is configured and the post
\* carries another sender.
Unauthorized(sender) ==
    AUTHORIZED_USER_ID # "" /\ sender # NoSender /\ sender # AUTHORIZED_USER_ID

\* main.py:150-205: process_message, from the channel post to the first await
\* of _process_url.  The filters run first; then send_message is awaited, and
\* the rest runs when it returns (sent) or raises out of the handler.  The
\* channel service numbers the messages it accepts 1, 2, ...
process_message(sender, chat, text, sent, scraped, tel_ok) ==
    LET message_text == text
        url == extract_url(message_text)
        m == Cardinality(Posted) + 1
        post == [sender |-> sender, chat |-> chat, text |-> text]
    IN  IF Unauthorized(sender)
        THEN /\ ev' = [NoEv EXCEPT !.op = "process_message", !.fin = "dropped",
                                   !.post = post]
             /\ UNCHANGED <<langfuse_client, url_store, trace_store, pending_note,
                            msgs, tasks, next_trace, trace_log, scores>>
        ELSE IF chat # "CHANNEL_A" \/ message_text = <<>> \/ url = NoUrl
        THEN /\ ev' = [NoEv EXCEPT !.op = "process_message", !.fin = "dropped",
                          !.post = post,
                          !.text = IF chat = "CHANNEL_A" THEN message_text ELSE <<>>,
                          !.found = IF chat = "CHANNEL_A" THEN url ELSE NoUrl]
             /\ UNCHANGED <<langfuse_client, url_store, trace_store, pending_note,
                            msgs, tasks, next_trace, trace_log, scores>>
        ELSE IF ~sent
        THEN /\ ev' = [NoEv EXCEPT !.op = "process_message", !.fin = "raised",
                                   !.post = post,
                                   !.text = message_text, !.found = url]
             /\ UNCHANGED <<langfuse_client, url_store, trace_store, pending_note,
                            msgs, tasks, next_trace, trace_log, scores>>
        ELSE LET t == ProcessUrlStart("process_message", m, url, scraped, tel_ok)
             IN  /\ m \in MsgIds
                 /\ Room
                 /\ msgs' = [msgs EXCEPT ![m] =
                                [Absent EXCEPT !.body = "summarizing", !.url = url,
                                               !.posted = url]]
                 /\ url_store' = RecordUrl(m, url)
                 /\ tasks' = Suspend(t)
                 /\ ev' = [PipelineEv("process_message", t) EXCEPT
                              !.body = "summarizing", !.text = message_text,
                              !.found = url, !.post = post,
                              !.scraped = IF scraped THEN "text" ELSE "none"]
                 /\ UNCHANGED <<langfuse_client, trace_store, pending_note,
                                next_trace, trace_log, scores>>

\* main.py:214-228: handle_retry, from the press of a displayed Retry button
\* to the await of the "Retrying" edit.
handle_retry(m) ==
    /\ "retry" \in Buttons(msgs[m].kb)
    /\ LET message_id == m
           url == UrlFor(message_id)
       IN  IF url = NoUrl
           THEN /\ ev' = [NoEv EXCEPT !.op = "handle_retry", !.m = m,
                                      !.notice = "url not found", !.fin = "returned"]
                /\ UNCHANGED tasks
           ELSE /\ Room
                /\ tasks' = Suspend([NoTask EXCEPT !.h = "handle_retry",
                                       !.pc = "edit_retrying", !.m = message_id,
                                       !.url = url])
                /\ ev' = [NoEv EXCEPT !.op = "handle_retry", !.h = "handle_retry",
                                      !.m = m]
    /\ UNCHANGED <<langfuse_client, url_store, trace_store, pending_note, msgs,
                   next_trace, trace_log, scores>>

\* main.py:225-230 and 116-130: the "Retrying" edit returns (ok), and the
\* retry run goes on to its first await, or raises outside the try block.
RetryEdit(t, ok, scraped, tel_ok) ==
    /\ t \in Waiting("edit_retrying")
    /\ IF ~ok
       THEN /\ tasks' = Resume(t)
            /\ ev' = [PipelineEv("retry_edit", t) EXCEPT !.url = NoUrl,
                                                        !.fin = "raised"]
            /\ UNCHANGED msgs
       ELSE LET n == ProcessUrlStart("handle_retry", t.m, t.url, scraped, tel_ok)
            IN  /\ msgs' = [msgs EXCEPT ![t.m] =
                               [Absent EXCEPT !.body = "retrying", !.url = t.url,
                                              !.posted = msgs[t.m].posted]]
                /\ tasks' = Continue(t, n)
                /\ ev' = [PipelineEv("retry_edit", t) EXCEPT
                             !.body = "retrying",
                             !.scraped = IF scraped THEN "text" ELSE "none"]
    /\ UNCHANGED <<langfuse_client, url_store, trace_store, pending_note,
                   next_trace, trace_log, scores>>

\* summarizer.py:56-87 and main.py:131-148: the generation call returns; the
\* run stores its trace_id and awaits the edit of its final body.
GenerateReturns(t, res, end_ok) ==
    /\ t \in Waiting("generate")
    /\ LET r == SummarizeReturn(t, res, end_ok)
       IN  /\ TraceBound(r)
           /\ trace_store' = IF r.summary # "" THEN StoreTrace(t.m, r.trace_id)
                             ELSE trace_store
           /\ tasks' = Continue(t, RenderResult(t, r))
           /\ next_trace' = NextTrace(r)
           /\ trace_log' = IF r.summary # "" /\ r.trace_id # NoTrace
                           THEN [trace_log EXCEPT ![t.m] = @ \cup {r.trace_id}]
                           ELSE trace_log
           /\ ev' = [PipelineEv("generate", RenderResult(t, r)) EXCEPT
                        !.url = NoUrl, !.res = res,
                        !.telemetry = IF ~langfuse_client THEN "absent"
                                      ELSE IF t.gen /\ end_ok THEN "ok"
                                      ELSE "failed",
                        !.summary = r.summary, !.error = r.error]
    /\ UNCHANGED <<langfuse_client, url_store, pending_note, msgs, scores>>

\* A variant of EditReturns that sends the final body as a new message of
\* the destination channel instead of editing the placeholder.
PostInsteadOfEdit(t, ok) ==
    /\ t \in Waiting("edit")
    /\ ok
    /\ LET m == Cardinality(Posted) + 1
       IN  /\ m \in MsgIds
           /\ msgs' = [msgs EXCEPT ![m] = Edited([Absent EXCEPT !.posted = t.url], t)]
           /\ tasks' = Resume(t)
           /\ ev' = [PipelineEv("edit", t) EXCEPT
                        !.url = NoUrl, !.body = t.body, !.kb = t.kb,
                        !.fin = "returned", !.writes = t.writes + 1]
    /\ UNCHANGED <<langfuse_client, url_store, trace_store, pending_note,
                   next_trace, trace_log, scores>>

\* main.py:120-125, 138-148: the edit of the final body returns (ok), which
\* ends the handler, or raises into the handler's except clause.
EditReturns(t, ok) ==
    /\ t \in Waiting("edit")
    /\ IF ok
       THEN /\ msgs' = [msgs EXCEPT ![t.m] = Edited(msgs[t.m], t)]
            /\ tasks' = Resume(t)
            /\ ev' = [PipelineEv("edit", t) EXCEPT
                         !.url = NoUrl, !.body = t.body, !.kb = t.kb,
                         !.fin = "returned", !.writes = t.writes + 1]
       ELSE /\ tasks' = Continue(t, ExceptClause(t))
            /\ ev' = [PipelineEv("edit", t) EXCEPT !.url = NoUrl]
            /\ UNCHANGED msgs
    /\ UNCHANGED <<langfuse_client, url_store, trace_store, pending_note,
                   next_trace, trace_log, scores>>

\* main.py:208-212, 233-237: the edit of the "Unexpected Error" body returns
\* or raises out of the handler.
ErrorEditReturns(t, ok) ==
    /\ t \in Waiting("edit_error")
    /\ tasks' = Resume(t)
    /\ IF ok
       THEN /\ msgs' = [msgs EXCEPT ![t.m] = Edited(msgs[t.m], t)]
            /\ ev' = [PipelineEv("edit_error", t) EXCEPT
                         !.url = NoUrl, !.body = t.body, !.kb = t.kb,
                         !.fin = "returned", !.writes = t.writes + 1]
       ELSE /\ ev' = [PipelineEv("edit_error", t) EXCEPT
                         !.url = NoUrl, !.fin = "raised", !.writes = t.writes]
            /\ UNCHANGED msgs
    /\ UNCHANGED <<langfuse_client, url_store, trace_store, pending_note,
                   next_trace, trace_log, scores>>

\* ------------------------------------------------------------------ feedback
Texts == {"note text"}

\* langfuse_client.create_score, as the telemetry service records it.
Score(trace_id, name, value) ==
    [trace |-> trace_id, name |-> name, value |-> value]

\* Rating handlers suspended before their score call.
Answering ==
    Cardinality({i \in 1..MaxTasks :
                    \E t \in Waiting("answer") : i <= CopiesIn(t, tasks)})
ScoreBound == BagCardinality(scores) + Answering < MaxScores

\* A variant of NoteFromButton in which a slot that is set is not overwritten.
FirstNoteWins(user_id, message_id) ==
    IF pending_note[user_id] # NoMsg THEN pending_note
    ELSE [pending_note EXCEPT ![user_id] = message_id]

\* main.py:251: _pending_note[query.from_user.id] = message_id
NoteFromButton(user_id, message_id) ==
    [pending_note EXCEPT ![user_id] = message_id]

\* A variant of handle_feedback without the early return of the noop branch:
\* a press on the rated button is handled as a rating.
RateOnNoop(m, action, u) ==
    /\ ("fb:" \o action) \in Buttons(msgs[m].kb)
    /\ LET message_id == m IN
       IF action = "note"
       THEN /\ pending_note' = NoteFromButton(u, message_id)
            /\ ev' = [NoEv EXCEPT !.op = "fb:note", !.m = m, !.u = u,
                                  !.slot = pending_note[u],
                                  !.reply = "deep link", !.fin = "returned"]
            /\ UNCHANGED tasks
       ELSE /\ Room
            /\ ScoreBound
            /\ tasks' = Suspend([NoTask EXCEPT !.h = "handle_feedback", !.pc = "answer",
                                   !.m = message_id, !.up = (action = "up"),
                                   !.shown = msgs[m].trace])
            /\ ev' = [NoEv EXCEPT
                         !.op = IF action = "noop" THEN "fb:noop" ELSE "fb:press",
                         !.m = m, !.u = u, !.shown = msgs[m].trace]
            /\ UNCHANGED pending_note
    /\ UNCHANGED <<langfuse_client, url_store, trace_store, msgs, next_trace, trace_log, scores>>

\* main.py:239-256: handle_feedback from the press of a displayed button to
\* its first await (up, down) or to its end (noop, note).
handle_feedback(m, action, u) ==
    /\ ("fb:" \o action) \in Buttons(msgs[m].kb)
    /\ LET message_id == m IN
       IF action = "noop"
       THEN /\ ev' = [NoEv EXCEPT !.op = "fb:noop", !.m = m, !.u = u,
                                  !.fin = "returned"]
            /\ UNCHANGED <<pending_note, tasks>>
       ELSE IF action = "note"
       THEN /\ pending_note' = NoteFromButton(u, message_id)
            /\ ev' = [NoEv EXCEPT !.op = "fb:note", !.m = m, !.u = u,
                                  !.slot = pending_note[u],
                                  !.reply = "deep link", !.fin = "returned"]
            /\ UNCHANGED tasks
       ELSE /\ Room
            /\ ScoreBound
            /\ tasks' = Suspend([NoTask EXCEPT !.h = "handle_feedback", !.pc = "answer",
                                   !.m = message_id, !.up = (action = "up"),
                                   !.shown = msgs[m].trace])
            /\ ev' = [NoEv EXCEPT !.op = "fb:press", !.m = m, !.u = u,
                                  !.shown = msgs[m].trace]
            /\ UNCHANGED pending_note
    /\ UNCHANGED <<langfuse_client, url_store, trace_store, msgs, next_trace, trace_log, scores>>

\* main.py:256-269: query.answer() returned; the score is forwarded
\* (score_ok: create_score returns; otherwise it raises out of the handler)
\* and the handler awaits the edit of the reply markup.
FeedbackScore(t, score_ok) ==
    /\ t \in Waiting("answer")
    /\ LET was_positive == t.up
           trace_id == TraceFor(t.m)
           forward == trace_id # NoTrace /\ langfuse_client
           score == Score(trace_id, "user_rating", IF was_positive THEN "1" ELSE "0")
       IN  IF forward /\ ~score_ok
           THEN /\ tasks' = Resume(t)
                /\ ev' = [NoEv EXCEPT !.op = "fb:score", !.m = t.m,
                                      !.shown = t.shown, !.trace = trace_id,
                                      !.fin = "raised"]
                /\ UNCHANGED scores
           ELSE /\ scores' = IF forward THEN scores (+) SetToBag({score}) ELSE scores
                /\ tasks' = Continue(t, [t EXCEPT !.pc = "markup", !.shown = NoTrace,
                                                  !.trace = trace_id])
                /\ ev' = [NoEv EXCEPT !.op = "fb:score", !.m = t.m,
                                      !.shown = t.shown, !.trace = trace_id,
                                      !.score = IF forward THEN score ELSE NoScore]
    /\ UNCHANGED <<langfuse_client, url_store, trace_store, pending_note, msgs,
                   next_trace, trace_log>>

\* main.py:269: edit_message_reply_markup returns (ok) or raises.
MarkupReturns(t, ok) ==
    /\ t \in Waiting("markup")
    /\ tasks' = Resume(t)
    /\ IF ok
       THEN /\ msgs' = [msgs EXCEPT ![t.m].kb = _rated_keyboard(t.up)]
            /\ ev' = [NoEv EXCEPT !.op = "fb:markup", !.m = t.m, !.trace = t.trace,
                                  !.kb = _rated_keyboard(t.up), !.fin = "returned"]
       ELSE /\ ev' = [NoEv EXCEPT !.op = "fb:markup", !.m = t.m, !.trace = t.trace,
                                  !.fin = "raised"]
            /\ UNCHANGED msgs
    /\ UNCHANGED <<langfuse_client, url_store, trace_store, pending_note,
                   next_trace, trace_log, scores>>

\* ------------------------------------------------------------------ notes
\* /start arguments.  prefix: what args[0] starts with; int: whether the rest
\* parses as an integer, and then n is its value.
StartArgs ==
    {NoArgs, [prefix |-> "other", int |-> FALSE, n |-> NoMsg],
     [prefix |-> "note_", int |-> FALSE, n |-> NoMsg]}
    \cup {[prefix |-> "note_", int |-> TRUE, n |-> m] : m \in MsgIds}

\* A variant of NoteFromStart that sets the slot of every user.
NoteForEveryone(user_id, message_id) ==
    [u \in DOMAIN pending_note |-> message_id]

\* main.py:279: _pending_note[update.effective_user.id] = message_id
NoteFromStart(user_id, message_id) ==
    [pending_note EXCEPT ![user_id] = message_id]

\* A variant of NoteArgument that takes any argument for a note link.
AnyArgument(args) == args # NoArgs

\* main.py:274-278: args is not empty, args[0] starts with "note_" and int()
\* parses the rest of it.
NoteArgument(args) == args # NoArgs /\ args.prefix = "note_" /\ args.int

\* main.py:271-280
handle_start(u, args) ==
    /\ IF NoteArgument(args)
       THEN LET message_id == args.n IN
            /\ pending_note' = NoteFromStart(u, message_id)
            /\ ev' = [NoEv EXCEPT !.op = "handle_start", !.u = u, !.m = message_id,
                                  !.slot = pending_note[u], !.args = args,
                                  !.reply = "prompt", !.fin = "returned"]
       ELSE /\ ev' = [NoEv EXCEPT !.op = "handle_start", !.u = u, !.args = args,
                                  !.fin = "returned"]
            /\ UNCHANGED pending_note
    /\ UNCHANGED <<langfuse_client, url_store, trace_store, msgs, tasks, next_trace, trace_log,
                   scores>>

\* A variant of StraySender without the early return.
NeverStray(message_id) == FALSE

\* main.py:285-287: _pending_note.pop(user_id, None) found no slot.
StraySender(message_id) == message_id = NoMsg

\* A variant of PopNote that removes the slot of every user.
PopEveryNote(user_id) == [u \in DOMAIN pending_note |-> NoMsg]

\* A variant of PopNote that leaves the slot in place.
KeepNote(user_id) == pending_note

\* main.py:285: _pending_note.pop(user_id, None) removes the sender's slot.
PopNote(user_id) == [pending_note EXCEPT ![user_id] = NoMsg]

\* A variant of NoteAck that acknowledges only a note with a trace_id.
AckWhenTraced(trace_id) == IF trace_id # NoTrace THEN "thanks" ELSE ""

\* main.py:300: the reply sent to the sender of a note, whatever the look-up
\* of the trace_id gave.
NoteAck(trace_id) == "thanks"

\* main.py:282-300.  score_ok: create_score returns; otherwise it raises out
\* of the handler.
handle_private_message(u, text, score_ok) ==
    LET user_id == u
        message_id == pending_note[user_id]
    IN  IF StraySender(message_id)
        THEN /\ ev' = [NoEv EXCEPT !.op = "handle_private_message", !.u = u,
                                   !.fin = "returned"]
             /\ UNCHANGED <<langfuse_client, url_store, trace_store, pending_note,
                            msgs, tasks, next_trace, trace_log, scores>>
        ELSE LET trace_id == TraceFor(message_id)
                 forward == trace_id # NoTrace /\ langfuse_client
                 score == Score(trace_id, "user_comment", text)
             IN  /\ forward => ScoreBound
                 /\ pending_note' = PopNote(user_id)
                 /\ IF forward /\ ~score_ok
                    THEN /\ ev' = [NoEv EXCEPT !.op = "handle_private_message",
                                               !.u = u, !.m = message_id,
                                               !.slot = message_id,
                                               !.trace = trace_id, !.fin = "raised"]
                         /\ UNCHANGED scores
                    ELSE /\ scores' = IF forward THEN scores (+) SetToBag({score})
                                      ELSE scores
                         /\ ev' = [NoEv EXCEPT !.op = "handle_private_message",
                                               !.u = u, !.m = message_id,
                                               !.slot = message_id,
                                               !.trace = trace_id,
                                               !.reply = NoteAck(trace_id),
                                               !.score = IF forward THEN score
                                                         ELSE NoScore,
                                               !.fin = "returned"]
                 /\ UNCHANGED <<langfuse_client, url_store, trace_store, msgs,
                                tasks, next_trace, trace_log>>

\* ------------------------------------------------------------------ process
\* main.py:47-66: the process starts again with the same configuration.  The
\* three stores are empty and the suspended handlers are gone; the channel
\* keeps its messages and the telemetry service its scores.
Restart ==
    /\ url_store' = [m \in MsgIds |-> NoUrl]
    /\ trace_store' = [m \in MsgIds |-> NoTrace]
    /\ pending_note' = [u \in Users |-> NoMsg]
    /\ tasks' = EmptyBag
    /\ ev' = [NoEv EXCEPT !.op = "restart"]
    /\ UNCHANGED <<langfuse_client, msgs, next_trace, trace_log, scores>>

\* main.py:47-66: the process starts again with the telemetry keys set
\* (client) or unset.
Reconfigure(client) ==
    /\ langfuse_client' = client
    /\ url_store' = [m \in MsgIds |-> NoUrl]
    /\ trace_store' = [m \in MsgIds |-> NoTrace]
    /\ pending_note' = [u \in Users |-> NoMsg]
    /\ tasks' = EmptyBag
    /\ ev' = [NoEv EXCEPT !.op = "restart"]
    /\ UNCHANGED <<msgs, next_trace, trace_log, scores>>

\* ------------------------------------------------------------------ events
\* A channel post arrives.
PostFrom(senders, chats, texts) ==
    \E sender \in senders, chat \in chats, text \in texts,
       sent, scraped, tel_ok \in BOOLEAN :
        process_message(sender, chat, text, sent, scraped, tel_ok)

\* An unsigned channel post arrives.
Post(chats, texts) == PostFrom({NoSender}, chats, texts)

\* A Retry button is pressed.
PressRetry == \E m \in MsgIds : handle_retry(m)

\* A suspended pipeline handler is resumed.
PipelineStep ==
    \/ \E t \in BagToSet(tasks), ok, scraped, tel_ok \in BOOLEAN :
          RetryEdit(t, ok, scraped, tel_ok)
    \/ \E t \in BagToSet(tasks), res \in GenResults, end_ok \in BOOLEAN :
          GenerateReturns(t, res, end_ok)
    \/ \E t \in BagToSet(tasks), ok \in BOOLEAN : EditReturns(t, ok)
    \/ \E t \in BagToSet(tasks), ok \in BOOLEAN : ErrorEditReturns(t, ok)

\* A button of the rating or rated keyboard is pressed.
PressFeedback(actions) ==
    \E m \in MsgIds, action \in actions, u \in Users : handle_feedback(m, action, u)

\* A suspended rating handler is resumed.
FeedbackStep ==
    \/ \E t \in BagToSet(tasks), score_ok \in BOOLEAN : FeedbackScore(t, score_ok)
    \/ \E t \in BagToSet(tasks), ok \in BOOLEAN : MarkupReturns(t, ok)

\* A /start command or a private text arrives.
StartCommand == \E u \in Users, args \in StartArgs : handle_start(u, args)
PrivateText ==
    \E u \in Users, text \in Texts, score_ok \in BOOLEAN :
        handle_private_message(u, text, score_ok)

\* Spec: one message, one user, handlers interleaving at their awaits; posts
\* that pass the filters; no note flow.
Links == {UrlA, <<"x", " ">> \o UrlB \o <<" ", "y">>}

Init == InitWith(MaxMsgs, {"u1"})

Next ==
    \/ Post({"CHANNEL_A"}, Links)
    \/ PressRetry
    \/ PipelineStep
    \/ PressFeedback({"up", "down", "noop"})
    \/ FeedbackStep
    \/ Restart

Spec == Init /\ [][Next]_vars

\* WideSpec: two messages, the pipeline alone, no telemetry client configured
\* (main.py:47-56 with the keys unset).
WideInit == InitWith(WideMsgs, {"u1"}) /\ ~langfuse_client

WideNext ==
    \/ Post({"CHANNEL_A"}, Links)
    \/ PressRetry
    \/ PipelineStep
    \/ Restart

WideSpec == WideInit /\ [][WideNext]_vars

\* NoteSpec: one message, two users, every handler; a handler is started
\* only when no other is suspended.
Idle == tasks = EmptyBag

NoteInit == InitWith(MaxMsgs, {"u1", "u2"})

NoteNext ==
    \/ Idle /\ Post(Chats, PostTexts)
    \/ Idle /\ PressRetry
    \/ PipelineStep
    \/ Idle /\ PressFeedback({"up", "down", "note", "noop"})
    \/ FeedbackStep
    \/ StartCommand
    \/ PrivateText
    \/ Restart

NoteSpec == NoteInit /\ [][NoteNext]_vars

\* LiveSpec: one message, the pipeline alone, a channel service that accepts
\* every edit and a process that keeps running.  asyncio resumes every
\* handler whose awaited call has returned, and the calls to the extractor,
\* to the model and to the channel service return: for each message, each
\* kind of step that stays possible is eventually taken.
RetryEditAccepted(m) ==
    \E t \in BagToSet(tasks), scraped, tel_ok \in BOOLEAN :
        t.m = m /\ RetryEdit(t, TRUE, scraped, tel_ok)
GenerationReturns(m) ==
    \E t \in BagToSet(tasks), res \in GenResults, end_ok \in BOOLEAN :
        t.m = m /\ GenerateReturns(t, res, end_ok)
EditAccepted(m) ==
    \E t \in BagToSet(tasks) : t.m = m /\ EditReturns(t, TRUE)

LiveNext ==
    \/ Post({"CHANNEL_A"}, Links)
    \/ PressRetry
    \/ \E m \in MsgIds : RetryEditAccepted(m)
    \/ \E m \in MsgIds : GenerationReturns(m)
    \/ \E m \in MsgIds : EditAccepted(m)

LiveSpec ==
    /\ Init
    /\ [][LiveNext]_vars
    /\ \A m \in 1..MaxMsgs :
          /\ WF_vars(RetryEditAccepted(m))
          /\ WF_vars(GenerationReturns(m))
          /\ WF_vars(EditAccepted(m))

\* NoteWideSpec: two messages, two users, a telemetry client, a channel
\* service that accepts the edits of the pipeline; the updates are handled
\* one after the other (main.py:314 builds the application without
\* concurrent_updates).
NoteWideInit == InitWith(WideMsgs, {"u1", "u2"}) /\ langfuse_client

NoteWideNext ==
    \/ Idle /\ Post({"CHANNEL_A"}, {UrlA})
    \/ \E m \in MsgIds : GenerationReturns(m)
    \/ \E m \in MsgIds : EditAccepted(m)
    \/ Idle /\ PressFeedback({"up", "note"})
    \/ FeedbackStep
    \/ Idle /\ StartCommand
    \/ Idle /\ PrivateText
    \/ Restart

NoteWideSpec == NoteWideInit /\ [][NoteWideNext]_vars

\* StoreSpec: two messages with different links, one user, a telemetry
\* client, every handler, a channel service that accepts the edits of the
\* pipeline; the updates are handled one after the other.
StoreInit == InitWith(WideMsgs, {"u1"}) /\ langfuse_client

StoreNext ==
    \/ Idle /\ Post({"CHANNEL_A"}, Links)
    \/ Idle /\ PressRetry
    \/ \E m \in MsgIds : RetryEditAccepted(m)
    \/ \E m \in MsgIds : GenerationReturns(m)
    \/ \E m \in MsgIds : EditAccepted(m)
    \/ Idle /\ PressFeedback({"up", "note"})
    \/ FeedbackStep
    \/ Idle /\ StartCommand
    \/ Idle /\ PrivateText
    \/ Restart

StoreSpec == StoreInit /\ [][StoreNext]_vars

\* LifetimeSpec: one process lifetime.  One message, one user, every
\* handler, handlers interleaving at their awaits, no restart.
LifetimeNext ==
    \/ Post({"CHANNEL_A"}, Links)
    \/ PressRetry
    \/ PipelineStep
    \/ PressFeedback({"up", "down", "note", "noop"})
    \/ FeedbackStep
    \/ StartCommand
    \/ PrivateText

LifetimeSpec == Init /\ [][LifetimeNext]_vars

\* ErrorSpec: one message, the pipeline with a generation call that returns
\* a summary or raises any of GenFailures, and a channel service that
\* accepts the edits.
GenerationEnds ==
    \E t \in BagToSet(tasks), res \in GenResults \cup GenFailures,
       end_ok \in BOOLEAN : GenerateReturns(t, res, end_ok)

ErrorNext ==
    \/ Post({"CHANNEL_A"}, Links)
    \/ PressRetry
    \/ \E m \in MsgIds : RetryEditAccepted(m)
    \/ GenerationEnds
    \/ \E m \in MsgIds : EditAccepted(m)

ErrorSpec == Init /\ [][ErrorNext]_vars

\* ConfigSpec: NoteSpec with one user and restarts that may change whether a
\* telemetry client is configured.
ConfigInit == InitWith(MaxMsgs, {"u1"})

ConfigNext ==
    \/ Idle /\ Post({"CHANNEL_A"}, Links)
    \/ Idle /\ PressRetry
    \/ PipelineStep
    \/ Idle /\ PressFeedback({"up", "down", "note", "noop"})
    \/ FeedbackStep
    \/ StartCommand
    \/ PrivateText
    \/ \E client \in BOOLEAN : Reconfigure(client)

ConfigSpec == ConfigInit /\ [][ConfigNext]_vars

\* FilterSpec: one message; signed and unsigned posts from the source channel
\* and from another chat, with and without text and link; a channel service
\* that accepts the edits of the pipeline; restarts.
FilterNext ==
    \/ PostFrom(Senders, Chats, PostTexts)
    \/ \E m \in MsgIds : GenerationReturns(m)
    \/ \E m \in MsgIds : EditAccepted(m)
    \/ Restart

FilterSpec == Init /\ [][FilterNext]_vars

\* ExtractSpec: the channel posts up to the first one that gets a
\* placeholder, with every text of AllTexts, and the run of that post with a
\* channel service that accepts its edits.
ExtractNext ==
    \/ Posted = {} /\ Post({"CHANNEL_A"}, AllTexts)
    \/ \E m \in MsgIds : GenerationReturns(m)
    \/ \E m \in MsgIds : EditAccepted(m)

ExtractSpec == Init /\ [][ExtractNext]_vars

\* ------------------------------------------------------------------ properties
\* Steps of the last action, read from ev.
RunEnded == ev.op \in {"edit", "edit_error"} /\ ev.fin # ""
FinalWrite == ev.op \in {"edit", "edit_error"} /\ ev.body \in FinalBodies
RatingForwarded == ev.op = "fb:score" /\ ev.score # NoScore

\* C1: every rating score is forwarded against the trace of the run whose
\* summary body the message displayed when the button was pressed, in every
\* interleaving of retry runs and presses.
C1_RatingAgainstDisplayedRun ==
    RatingForwarded => ev.score.trace = ev.shown

\* C2: every write of a final body carries the rating control exactly when
\* the trace store holds a trace_id for the message at that moment.
C2_RatingControlIffTraceStored ==
    FinalWrite => (ev.kb = _feedback_keyboard <=> trace_store[ev.m] # NoTrace)

\* C3: at most one user_rating score is forwarded for a trace_id, whatever
\* the sequence of rating presses.
RatingCount(trace_id) ==
    CopiesIn(Score(trace_id, "user_rating", "1"), scores)
    + CopiesIn(Score(trace_id, "user_rating", "0"), scores)
C3_AtMostOneRatingPerTrace ==
    \A trace_id \in 1..MaxTraces : RatingCount(trace_id) <= 1

\* C4 as stated: every pipeline run ends having written exactly one final
\* body, a success body or a failure body, with the Retry control exactly on
\* a failure body.
C4_ExactlyOneFinalBody ==
    RunEnded => /\ ev.writes = 1
                /\ ev.body \in FinalBodies
                /\ (ev.kb = _retry_keyboard <=> ev.body \in FailureBodies)

\* C4 amended: a pipeline run writes at most one final body: exactly one when
\* its handler returns, none when the channel service rejected both the edit
\* of its result and the edit of the "Unexpected Error" body, so that the
\* exception leaves the handler.  The body written is a success body or a
\* failure body and is the one displayed; the Retry control is attached
\* exactly to a failure body.
C4_OneFinalBodyUnlessEditsRejected ==
    RunEnded =>
        /\ ev.writes = (IF ev.fin = "returned" THEN 1 ELSE 0)
        /\ ev.fin = "raised" => ev.op = "edit_error" /\ ev.body = ""
        /\ ev.writes = 1 =>
              /\ ev.body \in FinalBodies
              /\ (ev.body = "success") # (ev.body \in FailureBodies)
              /\ (ev.kb = _retry_keyboard <=> ev.body \in FailureBodies)
              /\ msgs[ev.m].body = ev.body /\ msgs[ev.m].kb = ev.kb
C4_FailureBodyWritten ==
    RunEnded /\ ev.writes = 1 /\ ev.body \in FailureBodies /\ ev.kb = _retry_keyboard

\* C5: a Retry press on a message without a URL-store entry adds no entry to
\* the URL store or the trace store, edits no message, starts no extraction
\* or summarization, and produces the 'original URL not found' notice.
C5_RetryWithoutUrlOnlyNotifies ==
    [][(ev'.op = "handle_retry" /\ url_store[ev'.m] = NoUrl)
         => /\ UNCHANGED <<url_store, trace_store, msgs, tasks, next_trace>>
            /\ ev'.notice = "url not found"]_vars
C5_RetryPressedAfterRestart ==
    /\ ev.op = "handle_retry" /\ ev.notice = "url not found"
    /\ msgs[ev.m].body \in FailureBodies
    /\ url_store[ev.m] = NoUrl

\* C6: when a retry run ends with a success body, the trace store holds for
\* the message the trace_id that run got, and that trace_id was not stored
\* for the message before.
C6_RetryReplacesTrace ==
    (ev.op = "edit" /\ ev.h = "handle_retry" /\ ev.fin = "returned"
        /\ ev.body = "success")
    => trace_store[ev.m] = ev.trace /\ ev.trace \notin ev.old

\* C7: every run that edits a message, from a post or from a Retry press,
\* extracts from and renders the URL stored for the message when its
\* placeholder was posted.
C7_RunsUseUrlOfPlaceholder ==
    /\ \A t \in BagToSet(tasks) :
          t.h \in {"process_message", "handle_retry"} => t.url = msgs[t.m].posted
    /\ \A m \in Posted : msgs[m].url = msgs[m].posted
    /\ ev.url # NoUrl => ev.url = msgs[ev.m].posted
C7_RetryWroteBesideOtherUrl ==
    /\ ev.op = "edit" /\ ev.h = "handle_retry" /\ ev.body = "success"
    /\ \E m \in Posted : m > ev.m /\ msgs[m].posted # msgs[ev.m].posted

\* C8: a rating or a note is forwarded as a score only if the trace store
\* holds a trace_id for the target message at that moment, and against that
\* trace_id; when there is none, no score is forwarded and no error is shown.
C8_ScoreOnlyAgainstStoredTrace ==
    [][/\ scores' # scores =>
            /\ ev'.op \in {"fb:score", "handle_private_message"}
            /\ ev'.score # NoScore
            /\ scores' = scores (+) SetToBag({ev'.score})
            /\ trace_store[ev'.m] # NoTrace
            /\ ev'.score.trace = trace_store[ev'.m]
       /\ (/\ ev'.op \in {"fb:score", "handle_private_message"}
           /\ ev'.m # NoMsg
           /\ trace_store[ev'.m] = NoTrace) =>
            /\ scores' = scores
            /\ ev'.score = NoScore
            /\ ev'.notice = "" /\ ev'.fin # "raised"]_vars
C8_NoteForwardedAfterRating ==
    /\ ev.op = "handle_private_message" /\ ev.score # NoScore
    /\ ev.score.trace = trace_store[ev.m]
    /\ RatingCount(ev.score.trace) = 1

\* C9: a private text from a sender without a pending note slot causes no
\* telemetry call, leaves the stores and the other senders' slots as they
\* are, and gets no reply.
C9_StrayPrivateTextIgnored ==
    [][(ev'.op = "handle_private_message" /\ pending_note[ev'.u] = NoMsg)
         => /\ UNCHANGED <<url_store, trace_store, pending_note, scores, msgs,
                           tasks>>
            /\ ev'.reply = "" /\ ev'.score = NoScore]_vars
C9_StrayTextWhileOtherPending ==
    /\ ev.op = "handle_private_message" /\ ev.reply = ""
    /\ pending_note[ev.u] = NoMsg
    /\ \E u \in Users : u # ev.u /\ pending_note[u] # NoMsg /\ trace_store[pending_note[u]] # NoTrace

\* C10: while the channel service accepts edits, a message that shows a
\* placeholder of a run, from a post or from a Retry press, eventually shows
\* a final success or failure body.
C10_PlaceholderLeadsToFinalBody ==
    \A m \in 1..MaxMsgs :
        (msgs[m].body \in Placeholders) ~> (msgs[m].body \in FinalBodies)
C10_RetryRunShowedFinalBody ==
    /\ ev.op = "edit" /\ ev.h = "handle_retry"
    /\ msgs[ev.m].body \in FinalBodies

\* C11 as stated: an exception raised inside a pipeline run is caught by the
\* calling handler and rendered on the same message as the "Unexpected
\* Error" body with the Retry control; no exception leaves the handler.
EditRaised == ev.op = "edit" /\ ev.fin = ""
InExceptClause ==
    \E t \in Waiting("edit_error") :
        /\ t.m = ev.m /\ t.h = ev.h
        /\ t.body = "unexpected_error" /\ t.kb = _retry_keyboard
ErrorRendered ==
    /\ ev.fin = "returned"
    /\ ev.body = "unexpected_error" /\ ev.kb = _retry_keyboard
    /\ msgs[ev.m].body = "unexpected_error" /\ msgs[ev.m].kb = _retry_keyboard
C11_RunExceptionRendered ==
    /\ EditRaised => InExceptClause
    /\ ev.op = "edit_error" => ErrorRendered

\* C11 amended: an exception raised inside a pipeline run is caught by the
\* calling handler, whose except clause edits the same message to the
\* "Unexpected Error" body with the Retry control; the body is displayed
\* when the channel service accepts that edit, and when it rejects it too,
\* that second exception leaves the handler and nothing is written.
C11_RunExceptionCaught ==
    /\ EditRaised => InExceptClause
    /\ ev.op = "edit_error" =>
          \/ ErrorRendered
          \/ ev.fin = "raised" /\ ev.body = "" /\ ev.writes = 0
    /\ (ev.op \in {"generate", "edit"}) => ev.fin # "raised"
C11_ErrorRenderedAfterTraceStored ==
    /\ ev.op = "edit_error" /\ ErrorRendered
    /\ ev.h = "handle_retry"
    /\ trace_store[ev.m] # NoTrace

\* C12: a failure of a telemetry call made during summarization leaves the
\* summary and the error that summarize returns what they are without a
\* telemetry client, and the trace_id it returns is None.
WithoutTelemetry(res) == SummarizeReturn(NoTask, res, TRUE)
C12_TelemetryFailureKeepsOutcome ==
    (ev.op = "generate" /\ ev.telemetry = "failed") =>
        /\ ev.summary = WithoutTelemetry(ev.res).summary
        /\ ev.error = WithoutTelemetry(ev.res).error
        /\ ev.trace = NoTrace
C12_SummaryWithoutTrace ==
    /\ ev.op = "generate" /\ ev.telemetry = "failed"
    /\ ev.summary # "" /\ ev.trace = NoTrace
    /\ langfuse_client

\* C13: a failure of the score call during a rating press or a note
\* completion is not propagated: the rating handler goes on to swap the
\* control, and the note handler acknowledges the sender.
C13_ScoreFailureNotPropagated ==
    /\ ev.op = "fb:score" => ev.fin # "raised"
    /\ (ev.op = "handle_private_message" /\ ev.m # NoMsg) =>
          ev.fin = "returned" /\ ev.reply = "thanks"

\* C14: every return of summarize has exactly one of summary and error
\* message non-empty, whatever the generation call produced.
C14_ExactlyOneOfSummaryAndError ==
    ev.op = "generate" => ((ev.summary # "") # (ev.error # ""))

\* C15: when runs for the same message overlap, then once all of them have
\* finished the trace store holds for the message the trace_id of the run
\* whose body is displayed, and none if that run got none.
RunsOn(m) ==
    {t \in BagToSet(tasks) : t.m = m /\ t.h \in {"process_message", "handle_retry"}}
C15_StoredTraceOfDisplayedRun ==
    \A m \in MsgIds :
        (RunsOn(m) = {} /\ msgs[m].body \in FinalBodies)
            => trace_store[m] = msgs[m].trace

\* C16: the lifecycle state of a message changes only from Pending to
\* Succeeded, from Pending to Failed, and from Failed to Pending by a retry;
\* a displayed success body is never replaced by a failure body or by the
\* "Retrying" placeholder.
Life(body) ==
    IF body \in Placeholders THEN "Pending"
    ELSE IF body = "success" THEN "Succeeded"
    ELSE IF body \in FailureBodies THEN "Failed"
    ELSE "None"
LifeSteps ==
    {<<"None", "Pending">>, <<"Pending", "Succeeded">>, <<"Pending", "Failed">>,
     <<"Failed", "Pending">>}
C16_LifecycleTransitions ==
    [][\A m \in MsgIds :
          Life(msgs'[m].body) # Life(msgs[m].body) =>
              /\ <<Life(msgs[m].body), Life(msgs'[m].body)>> \in LifeSteps
              /\ Life(msgs[m].body) = "Failed" => ev'.op = "retry_edit"]_vars

\* C17: whenever a message displays a failure body or the "Retrying"
\* placeholder, the trace store holds no trace_id for it: the start of a
\* retry run removes the trace_id of any earlier run.
C17_NoTraceWhileFailedOrRetrying ==
    \A m \in MsgIds :
        msgs[m].body \in FailureBodies \cup {"retrying"}
            => trace_store[m] = NoTrace

\* C18: each accepted channel post causes exactly one message to be posted
\* to the destination channel, its placeholder; every later output of the
\* request and of its retries edits that message and posts none.
RunOps == {"retry_edit", "generate", "edit", "edit_error"}
C18_OnePostPerRequest ==
    [][/\ Posted' # Posted =>
            /\ ev'.op = "process_message" /\ ev'.url # NoUrl
            /\ ev'.m \notin Posted
            /\ Posted' = Posted \cup {ev'.m}
       /\ (ev'.op = "process_message" /\ ev'.url # NoUrl) =>
            /\ Cardinality(Posted') = Cardinality(Posted) + 1
            /\ msgs'[ev'.m].body = "summarizing"
       /\ ev'.op \in RunOps =>
            /\ ev'.m \in Posted
            /\ \A m \in MsgIds \ {ev'.m} : msgs'[m] = msgs[m]
            /\ ev'.body # "" => msgs'[ev'.m].body = ev'.body
            /\ msgs'[ev'.m].posted = msgs[ev'.m].posted]_vars
C18_RetryEditedBesideSecondPost ==
    /\ ev.op = "edit" /\ ev.h = "handle_retry" /\ ev.body \in FinalBodies
    /\ Cardinality(Posted) = 2

\* C19: for every accepted channel post, the placeholder is posted and the
\* URL is recorded under the placeholder's message id, with no trace_id,
\* before the extractor or the summarizer is called for the request.
C19_PlaceholderAndEntryBeforeRun ==
    /\ (ev.op = "process_message" /\ ev.url # NoUrl) =>
          /\ ev.m \in Posted /\ msgs[ev.m].body = "summarizing"
          /\ url_store[ev.m] = ev.url
          /\ trace_store[ev.m] = NoTrace
    /\ \A t \in BagToSet(tasks) :
          t.h = "process_message" =>
              /\ t.m \in Posted
              /\ url_store[t.m] = t.url
              /\ t.pc = "generate" => trace_store[t.m] = NoTrace
C19_SummarizerCalledAfterPost ==
    /\ ev.op = "process_message" /\ ev.url # NoUrl
    /\ \E t \in Waiting("generate") : t.m = ev.m /\ t.h = "process_message"

\* C20: a rating press on a message for which the trace store holds no
\* trace_id forwards no score and leaves the controls of the message as they
\* are: the rating control is not replaced by the rated control.
C20_RatingWithoutTraceLeavesControls ==
    /\ (ev.op = "fb:score" /\ ev.trace = NoTrace) => ev.score = NoScore
    /\ (ev.op = "fb:markup" /\ ev.trace = NoTrace) => ev.kb = NoKeyboard

\* C21: a rating press on a message for which the trace store holds a
\* trace_id forwards exactly one score named user_rating against that
\* trace_id, with value 1 for up and 0 for down, and then replaces the rating
\* control of the message by the disabled rated control plus the "add note"
\* control.
RatedButtons == {"fb:noop", "fb:note"}
C21_RatingForwardedThenRated ==
    [][/\ (ev'.op = "fb:score" /\ trace_store[ev'.m] # NoTrace) =>
            \E t \in Waiting("answer") :
                /\ t.m = ev'.m
                /\ scores' = scores (+) SetToBag({
                       Score(trace_store[t.m], "user_rating",
                             IF t.up THEN "1" ELSE "0")})
                /\ tasks' = Continue(t, [t EXCEPT !.pc = "markup",
                                                  !.shown = NoTrace,
                                                  !.trace = trace_store[t.m]])
       /\ (ev'.op = "fb:markup" /\ ev'.trace # NoTrace) =>
            \E t \in Waiting("markup") :
                /\ t.m = ev'.m
                /\ msgs'[t.m].kb = _rated_keyboard(t.up)
                /\ Buttons(msgs'[t.m].kb) = RatedButtons]_vars

\* C22: a private text from a sender with a pending slot removes the slot
\* and forwards the text as at most one user_comment score, against the
\* trace_id stored for the slot's target message; a slot comes back only by
\* a new note start of the same sender, and a private text from a sender
\* without slot forwards nothing.
NoteStarts == {"fb:note", "handle_start"}
C22_NoteSlotConsumedOnce ==
    [][/\ ev'.op = "handle_private_message" =>
            LET u == ev'.u
                message_id == pending_note[u]
            IN  IF message_id # NoMsg
                THEN /\ pending_note' = [pending_note EXCEPT ![u] = NoMsg]
                     /\ \/ scores' = scores
                        \/ /\ trace_store[message_id] # NoTrace
                           /\ ev'.score.name = "user_comment"
                           /\ ev'.score.value \in Texts
                           /\ ev'.score.trace = trace_store[message_id]
                           /\ scores' = scores (+) SetToBag({ev'.score})
                ELSE scores' = scores /\ pending_note' = pending_note
       /\ \A u \in Users :
            (pending_note[u] = NoMsg /\ pending_note'[u] # NoMsg) =>
                ev'.op \in NoteStarts /\ ev'.u = u]_vars
C22_SecondTextAfterNote ==
    /\ ev.op = "handle_private_message" /\ ev.m = NoMsg /\ ev.score = NoScore
    /\ \E trace_id \in 1..MaxTraces, text \in Texts :
          CopiesIn(Score(trace_id, "user_comment", text), scores) = 1
    /\ \A u \in Users : pending_note[u] = NoMsg

\* C23: a private text from a sender whose slot targets a message without a
\* stored trace_id forwards nothing to telemetry, removes the slot and is
\* acknowledged.
C23_NoteWithoutTraceAcknowledged ==
    [][(/\ ev'.op = "handle_private_message"
        /\ pending_note[ev'.u] # NoMsg
        /\ trace_store[pending_note[ev'.u]] = NoTrace)
         => /\ scores' = scores /\ ev'.score = NoScore
            /\ pending_note' = [pending_note EXCEPT ![ev'.u] = NoMsg]
            /\ ev'.reply = "thanks" /\ ev'.fin = "returned"]_vars
C23_NoteAfterRestartAcknowledged ==
    /\ ev.op = "handle_private_message" /\ ev.m # NoMsg
    /\ trace_store[ev.m] = NoTrace /\ msgs[ev.m].trace # NoTrace
    /\ ev.reply = "thanks" /\ pending_note[ev.u] = NoMsg

\* C24: every identity has at most one pending note slot, and the target of
\* the slot is the message of that identity's most recent note start (press
\* of "add note" or opening of a deep link) since the slot was last removed.
NoteStarted == ev.op \in NoteStarts /\ ev.m # NoMsg
C24_SlotIsLatestNoteStart ==
    [][/\ pending_note' \in [Users -> MsgIds \cup {NoMsg}]
       /\ \A u \in Users :
            /\ (NoteStarted' /\ ev'.u = u) => pending_note'[u] = ev'.m
            /\ pending_note'[u] # pending_note[u] =>
                  \/ NoteStarted' /\ ev'.u = u
                  \/ /\ ev'.op = "handle_private_message" /\ ev'.u = u
                     /\ pending_note'[u] = NoMsg
                  \/ ev'.op = "restart" /\ pending_note'[u] = NoMsg]_vars
C24_SecondPressOverwrote ==
    /\ ev.op = "fb:note" /\ ev.slot # NoMsg /\ ev.slot # ev.m
    /\ pending_note[ev.u] = ev.m
    /\ \E u \in Users : u # ev.u /\ pending_note[u] = ev.slot

\* C25: for every identity u and message m, a press of "add note" on m by u
\* and the opening of the deep link note_<m> by u leave the pending-note map
\* in the same state, u -> m with the other slots as they were, whatever the
\* slot of u held before: both in either order leave what either alone does.
C25_NoteStartsConverge ==
    [][NoteStarted' =>
          pending_note' = [pending_note EXCEPT ![ev'.u] = ev'.m]]_vars
C25_DeepLinkOpenedAfterPress ==
    /\ ev.op = "handle_start" /\ ev.m # NoMsg /\ ev.slot = ev.m
    /\ "fb:note" \in Buttons(msgs[ev.m].kb)
    /\ pending_note[ev.u] = ev.m
    /\ \E m \in Posted : m # ev.m /\ "fb:note" \in Buttons(msgs[m].kb)

\* C26: extract_url returns the leftmost part of the text that is "http://"
\* or "https://" followed by at least one non-whitespace character, extended
\* to the next whitespace or to the end of the text, and no URL when the text
\* has no such part; the text alone determines the result.
StartsUrl(text, i) ==
    IsScheme(text[i]) /\ i < Len(text) /\ ~IsSpace(text[i + 1])
IsFirstUrlOf(r, text) ==
    IF r = NoUrl
    THEN \A i \in 1..Len(text) : ~StartsUrl(text, i)
    ELSE \E i \in 1..Len(text) :
            LET j == i + Len(r) - 1
            IN  /\ StartsUrl(text, i)
                /\ \A l \in 1..(i - 1) : ~StartsUrl(text, l)
                /\ j <= Len(text) /\ r = SubSeq(text, i, j)
                /\ Len(r) >= 2 /\ \A k \in 2..Len(r) : ~IsSpace(r[k])
                /\ j = Len(text) \/ IsSpace(text[j + 1])
C26_FirstUrlExtracted ==
    (ev.op = "process_message" /\ ev.text # <<>>) => IsFirstUrlOf(ev.found, ev.text)
C26_FirstOfTwoUrls ==
    /\ ev.op = "process_message" /\ ev.url # NoUrl
    /\ \E i, l \in 1..Len(ev.text) :
          /\ i < l /\ StartsUrl(ev.text, i) /\ StartsUrl(ev.text, l)
          /\ \E k \in (i + 1)..(l - 1) : IsSpace(ev.text[k])
    /\ ev.found = SubSeq(ev.text, 1, 2)
    /\ url_store[ev.m] = ev.found

\* C27 as stated: in every pipeline run the summarizer and the start of the
\* telemetry trace are invoked only after the extractor returned text for
\* the run; when the extractor yields nothing the run writes the "Scraping
\* Failed" body with Retry, stores no trace_id and never calls the
\* summarizer.
RunStarted == ev.op \in {"process_message", "retry_edit"} /\ ev.scraped # ""
NewlyAt(pc) ==
    {n \in Waiting(pc)' : CopiesIn(n, tasks') > CopiesIn(n, tasks)}
\* The runs whose edit to the "Scraping Failed" body returns in this step.
ScrapeFailureEdits ==
    {t \in Waiting("edit") :
        /\ ev'.op = "edit" /\ t.body = "scraping_failed"
        /\ CopiesIn(t, tasks') < CopiesIn(t, tasks)}
SummarizerAfterScrape ==
    /\ NewlyAt("generate") # {} => RunStarted' /\ ev'.scraped = "text"
    /\ \A n \in BagToSet(tasks') : n.gen => n.pc = "generate"
    /\ (RunStarted' /\ ev'.scraped = "none") =>
          /\ NewlyAt("generate") = {}
          /\ \E n \in NewlyAt("edit") :
                /\ n.m = ev'.m /\ n.h = ev'.h
                /\ n.body = "scraping_failed" /\ n.kb = _retry_keyboard
                /\ n.trace = NoTrace
          /\ trace_store' = trace_store /\ next_trace' = next_trace
C27_ScrapeFailureWritten ==
    [][/\ SummarizerAfterScrape
       /\ \A t \in ScrapeFailureEdits :
            /\ msgs'[t.m].body = "scraping_failed"
            /\ msgs'[t.m].kb = _retry_keyboard
            /\ trace_store' = trace_store]_vars

\* C27 amended: the summarizer and the start of the telemetry trace are
\* invoked only after the extractor returned text for the run; when the
\* extractor yields nothing the run calls neither, stores no trace_id and
\* edits the message to the "Scraping Failed" body with Retry, which is
\* displayed when the channel service accepts the edit; when it rejects the
\* edit, the handler's except clause takes over with the "Unexpected Error"
\* body and Retry.
C27_ScrapeFailureEdited ==
    [][/\ SummarizerAfterScrape
       /\ \A t \in ScrapeFailureEdits :
            /\ trace_store' = trace_store /\ next_trace' = next_trace
            /\ NewlyAt("generate") = {}
            /\ \/ /\ ev'.fin = "returned"
                  /\ msgs'[t.m].body = "scraping_failed"
                  /\ msgs'[t.m].kb = _retry_keyboard
               \/ /\ ev'.fin = "" /\ msgs' = msgs
                  /\ \E n \in NewlyAt("edit_error") :
                        /\ n.m = t.m /\ n.body = "unexpected_error"
                        /\ n.kb = _retry_keyboard]_vars
C27_RetryRunScrapedNothing ==
    /\ ev.op = "edit" /\ ev.h = "handle_retry" /\ ev.fin = "returned"
    /\ ev.body = "scraping_failed" /\ ev.kb = _retry_keyboard
    /\ msgs[ev.m].body = "scraping_failed"
    /\ trace_store[ev.m] = NoTrace /\ next_trace = 1

\* C28: the URL stored for a message id is written once, when the
\* placeholder is posted, and no later operation (end of a run, retry,
\* rating, note start, note completion) changes or removes it; the store is
\* emptied only when the process restarts.
PlaceholderPosted == ev.op = "process_message" /\ ev.url # NoUrl
C28_UrlWrittenOnce ==
    [][/\ PlaceholderPosted' => url_store'[ev'.m] = ev'.url
       /\ \A m \in MsgIds :
            url_store'[m] # url_store[m] =>
                \/ /\ PlaceholderPosted' /\ ev'.m = m
                   /\ m \notin Posted /\ url_store[m] = NoUrl
                   /\ url_store'[m] = ev'.url
                \/ ev'.op = "restart" /\ url_store'[m] = NoUrl]_vars
C28_UrlsKeptThroughOperations ==
    /\ ev.op = "edit" /\ ev.h = "handle_retry" /\ ev.fin = "returned"
    /\ url_store[ev.m] # NoUrl /\ url_store[ev.m] = msgs[ev.m].posted
    /\ \E m \in Posted, u \in Users :
          /\ m # ev.m /\ pending_note[u] = m
          /\ "fb:note" \in Buttons(msgs[m].kb)
          /\ url_store[m] = msgs[m].posted /\ url_store[m] # url_store[ev.m]

\* C29: a failure of the generation call falls into exactly one of five
\* classes, each with its own message: a server error with code 503 or
\* "overloaded" in its text is overloaded, another server error a server
\* error, a client error with code 429 or "quota" or "rate" in its text rate
\* limited, another client error a client error, any other exception
\* unexpected; in all five summarize returns no summary and no trace_id.
ErrorClass(e) ==
    CASE e.kind = "ServerError" /\ (e.code = 503 \/ "overloaded" \in e.words)
           -> "model overloaded"
      [] e.kind = "ServerError" /\ ~(e.code = 503 \/ "overloaded" \in e.words)
           -> "server error"
      [] e.kind = "ClientError"
            /\ (e.code = 429 \/ e.words \cap {"quota", "rate"} # {})
           -> "rate limited"
      [] e.kind = "ClientError"
            /\ ~(e.code = 429 \/ e.words \cap {"quota", "rate"} # {})
           -> "client error"
      [] OTHER -> "unexpected error"
GenerationFailed == ev.op = "generate" /\ ev.res.kind # "text"
C29_FailureClassified ==
    [][GenerationFailed' =>
          /\ ev'.error = ErrorClass(ev'.res)
          /\ Cardinality({ErrorClass(e) : e \in GenFailures}) = 5
          /\ ev'.summary = "" /\ ev'.trace = NoTrace
          /\ next_trace' = next_trace /\ trace_store' = trace_store]_vars
C29_RateLimitedByText ==
    /\ GenerationFailed /\ ev.res.kind = "ClientError" /\ ev.res.code # 429
    /\ "rate" \in ev.res.words /\ ev.error = "rate limited"
    /\ ev.telemetry = "ok" /\ ev.trace = NoTrace
    /\ \E t \in Waiting("edit") :
          t.body = "summarization_failed" /\ t.detail = "rate limited"

\* C30: a press on the disabled rated button is only acknowledged: no score
\* is forwarded, no control changes, and the URL store, the trace store and
\* the pending-note map stay as they are.
C30_NoopOnlyAcknowledged ==
    [][ev'.op = "fb:noop" =>
          /\ UNCHANGED <<url_store, trace_store, pending_note, scores, msgs,
                         tasks, next_trace>>
          /\ ev'.fin = "returned" /\ ev'.score = NoScore
          /\ ev'.notice = "" /\ ev'.reply = ""]_vars
C30_NoopPressedWhileNotePending ==
    /\ ev.op = "fb:noop" /\ "fb:noop" \in Buttons(msgs[ev.m].kb)
    /\ trace_store[ev.m] # NoTrace /\ RatingCount(trace_store[ev.m]) = 1
    /\ \E u \in Users : pending_note[u] = ev.m

\* C31: every message id with a trace_id in the trace store has a URL in the
\* URL store, and a trace_id is stored for a message only by a pipeline run
\* whose generation returned a non-empty summary together with a trace_id.
C31_TraceOnlyFromSummarizedRun ==
    [][/\ \A m \in MsgIds : trace_store'[m] # NoTrace => url_store'[m] # NoUrl
       /\ \A m \in MsgIds :
            trace_store'[m] # trace_store[m] =>
                \/ /\ ev'.op = "generate" /\ ev'.m = m
                   /\ ev'.summary # "" /\ ev'.trace # NoTrace
                   /\ ev'.telemetry = "ok"
                   /\ trace_store'[m] = ev'.trace
                \/ ev'.op = "restart" /\ trace_store'[m] = NoTrace]_vars
C31_RetryRunStoredTrace ==
    /\ ev.op = "generate" /\ ev.h = "handle_retry" /\ ev.summary # ""
    /\ ev.trace # NoTrace /\ trace_store[ev.m] = ev.trace
    /\ url_store[ev.m] = msgs[ev.m].posted /\ url_store[ev.m] # NoUrl

\* C32: while no telemetry client is configured, whatever posts, retries,
\* ratings and notes are handled, the trace store is empty, no body is
\* rendered with the rating control and no score is forwarded.
C32_NothingTracedWithoutClient ==
    [][~langfuse_client' =>
          /\ \A m \in MsgIds : trace_store'[m] = NoTrace
          /\ \A t \in BagToSet(tasks') : ~t.gen /\ t.kb # _feedback_keyboard
          /\ ev'.body # "" => ev'.kb # _feedback_keyboard
          /\ scores' = scores /\ ev'.score = NoScore]_vars
C32_RatingPressedWithoutClient ==
    /\ ~langfuse_client /\ ev.op = "fb:score" /\ ev.score = NoScore
    /\ ev.fin = "" /\ ev.shown # NoTrace
    /\ msgs[ev.m].body = "success"

\* C33: a channel post is dropped with no effect (no placeholder, no store
\* changed, no extractor or summarizer call) when its chat is not the source
\* channel, when it has neither text nor caption, when its text holds no URL,
\* or when an authorized identity is configured and the post carries another
\* sender.
HasUrl(text) == \E i \in 1..Len(text) : StartsUrl(text, i)
ToBeDropped(post) ==
    \/ post.chat # "CHANNEL_A"
    \/ post.text = <<>>
    \/ ~HasUrl(post.text)
    \/ /\ AUTHORIZED_USER_ID # ""
       /\ post.sender \notin {NoSender, AUTHORIZED_USER_ID}
C33_FilteredPostDropped ==
    [][(ev'.op = "process_message" /\ ToBeDropped(ev'.post)) =>
          /\ ev'.fin = "dropped"
          /\ UNCHANGED <<url_store, trace_store, pending_note, msgs, tasks,
                         next_trace, scores>>
          /\ ev'.body = "" /\ ev'.scraped = "" /\ ev'.m = NoMsg]_vars
C33_LinkOfOtherSenderDropped ==
    /\ ev.op = "process_message" /\ ev.fin = "dropped"
    /\ ev.post.chat = "CHANNEL_A" /\ HasUrl(ev.post.text)
    /\ ev.post.sender \notin {NoSender, AUTHORIZED_USER_ID}
    /\ Posted = {}

\* C34: the rating handler and the two note operations never add, change or
\* remove an entry of the URL store or of the trace store, and a note start
\* or a note completion by an identity never changes the slot of another.
FeedbackOps == {"fb:press", "fb:score", "fb:markup", "fb:noop", "fb:note"}
NoteOps == {"fb:note", "handle_start", "handle_private_message"}
C34_FeedbackLeavesStores ==
    [][/\ ev'.op \in FeedbackOps \cup NoteOps =>
            UNCHANGED <<url_store, trace_store>>
       /\ ev'.op \in NoteOps =>
            \A u \in Users \ {ev'.u} : pending_note'[u] = pending_note[u]]_vars
C34_NoteCompletedBesideOtherSlot ==
    /\ ev.op = "handle_private_message" /\ ev.slot # NoMsg
    /\ pending_note[ev.u] = NoMsg
    /\ \E u \in Users : u # ev.u /\ pending_note[u] # NoMsg
    /\ url_store[ev.slot] # NoUrl /\ trace_store[ev.slot] # NoTrace

\* C35: while the process runs without a restart, a press of the "add note"
\* button sets a slot that targets a message for which the trace store
\* holds a trace_id.
C35_NoteButtonTargetsTraced ==
    [][ev'.op = "fb:note" =>
          /\ pending_note'[ev'.u] = ev'.m
          /\ trace_store'[ev'.m] # NoTrace]_vars
C35_NotePressedOnRetriedMessage ==
    /\ ev.op = "fb:note" /\ pending_note[ev.u] = ev.m
    /\ trace_store[ev.m] # NoTrace
    /\ msgs[ev.m].trace # trace_store[ev.m]

\* C36: a /start command without an argument, with an argument that does
\* not begin with "note_", or with one whose rest is not an integer changes
\* no slot and sends no prompt; with "note_<m>" it sets the sender's slot to
\* m and sends the prompt, whether or not the URL store has an entry for m.
WellFormed(args) == args.prefix = "note_" /\ args.int
C36_StartSetsSlotOnlyForNoteLink ==
    [][ev'.op = "handle_start" =>
          IF WellFormed(ev'.args)
          THEN /\ pending_note' = [pending_note EXCEPT ![ev'.u] = ev'.args.n]
               /\ ev'.reply = "prompt"
          ELSE /\ UNCHANGED pending_note
               /\ ev'.reply = ""]_vars
C36_StartForUnknownMessage ==
    /\ ev.op = "handle_start" /\ WellFormed(ev.args)
    /\ url_store[ev.args.n] = NoUrl /\ trace_store[ev.args.n] = NoTrace
    /\ pending_note[ev.u] = ev.args.n /\ ev.slot # ev.args.n
    /\ \E m \in MsgIds : url_store[m] # NoUrl

====
